---- MODULE Spec2Model ----
(***************************************************************************)
(* Model of src/arma.ipynb: the ARMA(p, q) state-space builder             *)
(* initialize_FGHQ, the Kalman recursion and concentrated likelihood of    *)
(* obj_func_likelihood, and log_likelihood.                                *)
(*                                                                         *)
(* Numbers are exact rationals <<numerator, denominator>> in lowest terms  *)
(* with a positive denominator, so every statement below is a statement    *)
(* about the recursion in exact arithmetic, not about float64 rounding.    *)
(* Arrays keep numpy's 0-based indices: a k x m array is a function        *)
(* 0..k-1 -> (0..m-1 -> rational).                                         *)
(***************************************************************************)
EXTENDS Integers, Sequences, FiniteSets, TLC

VARIABLES y, ev, build

vars == <<y, ev, build>>

-----------------------------------------------------------------------------
(* Bounds of the model.                                                     *)

\* Longest observation sequence y (the notebook's N is len(y)).
MaxN == 2
\* Longest coefficient vector theta handed to obj_func_likelihood.
MaxThetaLen == 6
\* Longest AR / MA coefficient sequence handed to initialize_FGHQ directly.
MaxP == 4
MaxQ == 3
\* Evaluations one caller runs one after the other.
MaxCalls == 2

-----------------------------------------------------------------------------
(* Program constants.                                                       *)

\* obj_func_likelihood: p = 3, q = 2, V = np.eye(k) * 100
p == 3
q == 2
Diffuse == 100

-----------------------------------------------------------------------------
(* Exact rational arithmetic.                                               *)

Abs(n) == IF n < 0 THEN -n ELSE n

Max(a, b) == IF a >= b THEN a ELSE b

Min(a, b) == IF a <= b THEN a ELSE b

RECURSIVE GCD(_, _)
GCD(a, b) == IF b = 0 THEN a ELSE GCD(b, a % b)

Rat(n, d) ==
    LET g == GCD(Abs(n), Abs(d))
        s == IF d < 0 THEN -1 ELSE 1
    IN  <<s * (n \div g), s * (d \div g)>>

RZero == <<0, 1>>

ROne == <<1, 1>>

RInt(n) == <<n, 1>>

RSign(a) == IF a[1] > 0 THEN 1 ELSE IF a[1] < 0 THEN -1 ELSE 0

RNeg(a) == <<-a[1], a[2]>>

RAdd(a, b) ==
    IF a[1] = 0 THEN b
    ELSE IF b[1] = 0 THEN a
    ELSE LET g == GCD(a[2], b[2])
         IN  Rat(a[1] * (b[2] \div g) + b[1] * (a[2] \div g), (a[2] \div g) * b[2])

RSub(a, b) == RAdd(a, RNeg(b))

RMul(a, b) ==
    IF a[1] = 0 \/ b[1] = 0 THEN RZero
    ELSE LET g1 == GCD(Abs(a[1]), b[2])
             g2 == GCD(Abs(b[1]), a[2])
         IN  <<(a[1] \div g1) * (b[1] \div g2), (a[2] \div g2) * (b[2] \div g1)>>

\* 1 / b, for b # 0
RInv(b) == IF b[1] > 0 THEN <<b[2], b[1]>> ELSE <<-b[2], -b[1]>>

\* a / b, for b # 0
RDiv(a, b) == RMul(a, RInv(b))

-----------------------------------------------------------------------------
(* numpy arrays.                                                            *)

\* The function on 0..n-1 with value f(i) at i, every value computed once.
RECURSIVE Fun0(_, _)
Fun0(f(_), n) == IF n = 0 THEN <<>> ELSE Fun0(f, n - 1) @@ ((n - 1) :> f(n - 1))

Len0(v) == Cardinality(DOMAIN v)

Mat(n, m, f(_, _)) == Fun0(LAMBDA i : Fun0(LAMBDA j : f(i, j), m), n)

Rows(A) == Len0(A)

Cols(A) == IF Rows(A) = 0 THEN 0 ELSE Len0(A[0])

\* np.zeros((n, m))
Zeros(n, m) == Mat(n, m, LAMBDA i, j : RZero)

\* np.eye(k)
Eye(k) == Mat(k, k, LAMBDA i, j : IF i = j THEN ROne ELSE RZero)

RECURSIVE Dot(_, _, _, _, _)
Dot(A, B, i, j, n) ==
    IF n = 0 THEN RZero
    ELSE RAdd(Dot(A, B, i, j, n - 1), RMul(A[i][n - 1], B[n - 1][j]))

\* A @ B is defined when the inner dimensions agree; numpy raises ValueError
\* otherwise.
MatMulOK(A, B) == Cols(A) = Rows(B)

\* A @ B
MatMul(A, B) == Mat(Rows(A), Cols(B), LAMBDA i, j : Dot(A, B, i, j, Cols(A)))

\* A.T
Transpose(A) == Mat(Cols(A), Rows(A), LAMBDA i, j : A[j][i])

\* A + B, A - B (same shape)
MatAdd(A, B) == Mat(Rows(A), Cols(A), LAMBDA i, j : RAdd(A[i][j], B[i][j]))

MatSub(A, B) == Mat(Rows(A), Cols(A), LAMBDA i, j : RSub(A[i][j], B[i][j]))

\* A * c and A / c for a scalar c (c # 0 for the quotient)
MatScale(A, c) == Mat(Rows(A), Cols(A), LAMBDA i, j : RMul(A[i][j], c))

MatDiv(A, c) == Mat(Rows(A), Cols(A), LAMBDA i, j : RDiv(A[i][j], c))

\* A.item() of a 1 x 1 array
Item(A) == A[0][0]

\* v[lo:hi] of a 0-based sequence
Slice(v, lo, hi) ==
    LET n == Max(0, Min(hi, Len0(v)) - Min(lo, Len0(v)))
    IN  Fun0(LAMBDA i : v[lo + i], n)

-----------------------------------------------------------------------------
(* initialize_FGHQ(a, b)                                                    *)

\* for i in range(n): F[i, 0] = a[i]
RECURSIVE FillAR(_, _, _)
FillAR(F, a, n) ==
    IF n = 0 THEN F ELSE [FillAR(F, a, n - 1) EXCEPT ![n - 1][0] = a[n - 1]]

\* for i in range(n): F[i, i + 1] = 1
RECURSIVE FillShift(_, _)
FillShift(F, n) ==
    IF n <= 0 THEN F ELSE [FillShift(F, n - 1) EXCEPT ![n - 1][n] = ROne]

\* (mutation of FillMA: the MA coefficients without their sign change)
RECURSIVE FillMA_NoMinus(_, _, _)
FillMA_NoMinus(G, b, n) ==
    IF n = 0 THEN G ELSE [FillMA_NoMinus(G, b, n - 1) EXCEPT ![n][0] = b[n - 1]]

\* for i in range(n): G[i+1, 0] = -b[i]
RECURSIVE FillMA(_, _, _)
FillMA(G, b, n) ==
    IF n = 0 THEN G ELSE [FillMA(G, b, n - 1) EXCEPT ![n][0] = RNeg(b[n - 1])]

\* (mutation of StateDim: the MA depth without its + 1)
StateDim_NoPlusOne(pp, qq) == Max(pp, qq)

StateDim(pp, qq) == Max(pp, qq + 1)

initialize_FGHQ(a, b) ==
    LET pp == Len0(a)
        qq == Len0(b)
        k == StateDim(pp, qq)
        F == FillShift(FillAR(Zeros(k, k), a, pp), k - 1)
        G == [FillMA(Zeros(k, 1), b, qq) EXCEPT ![0][0] = ROne]
        H == [Zeros(1, k) EXCEPT ![0][0] = ROne]
        Q == Eye(k)
    IN  [F |-> F, G |-> G, H |-> H, Q |-> Q]

-----------------------------------------------------------------------------
(* log_likelihood(sigma_hat, r)                                             *)

\* np.log on an exact rational: a finite real for a positive argument, -inf
\* (RuntimeWarning, no exception) for 0, nan (RuntimeWarning, no exception)
\* for a negative argument.
LogClass(v) ==
    IF RSign(v) > 0 THEN "finite" ELSE IF RSign(v) = 0 THEN "-inf" ELSE "nan"

\* -0.5 * (N log(2 pi) + N log(sigma_hat) + sum(log(r)) + N).  A finite value
\* is kept as the term it is computed from: sign * 0.5 * (N log(2 pi) +
\* N log(sigma_hat) + sum_t log(r[t]) + N), with sign = -1.
log_likelihood(sigma_hat, r) ==
    LET n == Len0(r)
        classes == {LogClass(sigma_hat)} \cup {LogClass(r[i][0]) : i \in 0..(n - 1)}
        cls == IF "nan" \in classes THEN "nan"
               ELSE IF "-inf" \in classes THEN "+inf"
               ELSE "finite"
    IN  [cls |-> cls, sign |-> -1, N |-> n, sigma_hat |-> sigma_hat, r |-> r]

\* -v of a value returned by log_likelihood
Negate(v) ==
    [v EXCEPT !.sign = -v.sign,
              !.cls = IF v.cls = "+inf" THEN "-inf"
                      ELSE IF v.cls = "-inf" THEN "+inf" ELSE v.cls]

-----------------------------------------------------------------------------
(* obj_func_likelihood(theta), reading the globals y and N                  *)

\* The notebook's global N; the model takes it to be len(y).
N == Len0(y)

Evals == {"A", "B"}

NoOut == [kind |-> "none"]

\* An evaluation that has not been called: no local exists yet.
Idle ==
    [pc |-> "idle", theta |-> <<>>, F |-> <<>>, G |-> <<>>, H |-> <<>>,
     x |-> <<>>, V |-> <<>>, e |-> <<>>, r |-> <<>>, t |-> 0,
     V_predict |-> <<>>, K |-> <<>>, out |-> NoOut, ran |-> <<>>]

\* V = np.eye(k) * 100
DiffuseV(k) == MatScale(Eye(k), RInt(Diffuse))

\* Lines 125-137: slice theta, build the matrices, allocate x, V, e, r.
Enter(old, th) ==
    LET a == Slice(th, 0, p)
        b == Slice(th, p, p + q)
        k == Max(p, q + 1)
        m == initialize_FGHQ(a, b)
    IN  [pc |-> "loop", theta |-> th, F |-> m.F, G |-> m.G, H |-> m.H,
         x |-> Zeros(k, 1), V |-> DiffuseV(k),
         e |-> Zeros(N, 1), r |-> Zeros(N, 1), t |-> 0,
         V_predict |-> <<>>, K |-> <<>>, out |-> NoOut,
         ran |-> Append(old.ran, th)]

\* x_predict = F @ x
Predict_x(c) == MatMul(c.F, c.x)

\* (mutation of Predict_V: the transpose of F dropped)
Predict_V_NoTranspose(c) ==
    MatAdd(MatMul(MatMul(c.F, c.V), c.F), MatMul(c.G, Transpose(c.G)))

\* V_predict = F @ V @ F.T + G @ G.T
Predict_V(c) ==
    MatAdd(MatMul(MatMul(c.F, c.V), Transpose(c.F)), MatMul(c.G, Transpose(c.G)))

\* (mutation of Gain: the division by r[t] dropped)
Gain_NoDivision(V_predict, H, rt) == MatMul(V_predict, Transpose(H))

\* K = V_predict @ H.T / r[t]
Gain(V_predict, H, rt) == MatDiv(MatMul(V_predict, Transpose(H)), rt)

\* (mutation of Update_V: the operands of the subtraction swapped)
Update_V_Swapped(K, H, V_predict) ==
    MatMul(MatSub(MatMul(K, H), Eye(Rows(K))), V_predict)

\* V = (np.eye(k) - K @ H) @ V_predict
Update_V(K, H, V_predict) ==
    MatMul(MatSub(Eye(Rows(K)), MatMul(K, H)), V_predict)

\* One iteration of "for t in range(N)" (lines 142-154), t advancing by dt.  F @ x raises
\* ValueError when F is not k x k with k = max(p, q + 1) = 3, which happens
\* when theta has fewer than p entries.
IterateBy(c, dt) ==
    IF ~MatMulOK(c.F, c.x)
    THEN [c EXCEPT !.pc = "error", !.out = [kind |-> "ValueError"]]
    ELSE
    LET x_predict == Predict_x(c)
        V_predict == Predict_V(c)
        et == RSub(RInt(y[c.t]), Item(MatMul(c.H, x_predict)))
        rt == Item(MatMul(MatMul(c.H, V_predict), Transpose(c.H)))
        K == Gain(V_predict, c.H, rt)
    IN  [c EXCEPT !.e[c.t][0] = et,
                  !.r[c.t][0] = rt,
                  !.V_predict = V_predict,
                  !.K = K,
                  !.x = MatAdd(x_predict, MatScale(K, et)),
                  !.V = Update_V(K, c.H, V_predict),
                  !.t = c.t + dt]

\* (mutation of Iterate: the loop index advanced by two)
Iterate_SkipOne(c) == IterateBy(c, 2)

Iterate(c) == IterateBy(c, 1)

\* np.sum(e**2 / r) over the first n rows
RECURSIVE SumSq(_, _, _)
SumSq(e, r, n) ==
    IF n = 0 THEN RZero
    ELSE RAdd(SumSq(e, r, n - 1),
              RDiv(RMul(e[n - 1][0], e[n - 1][0]), r[n - 1][0]))

\* sigma_hat = np.sum(e**2 / r) / N
SigmaHat(c) == RDiv(SumSq(c.e, c.r, N), RInt(N))

\* Lines 156-159.
Return(c) ==
    LET sigma_hat == SigmaHat(c)
        log_lik == log_likelihood(sigma_hat, c.r)
    IN  [c EXCEPT !.pc = "done",
                  !.out = [kind |-> "returned", value |-> Negate(log_lik)]]

-----------------------------------------------------------------------------
(* Actions.                                                                 *)

\* (mutation of Call: e and r are allocated once per caller and kept from
\* one evaluation to the next)
Call_SharedER(s, th) ==
    /\ ev[s].pc \in {"idle", "done", "error"}
    /\ Len(ev[s].ran) < MaxCalls
    /\ ev' = [ev EXCEPT ![s] =
                IF ev[s].pc = "idle" THEN Enter(ev[s], th)
                ELSE [Enter(ev[s], th) EXCEPT !.e = ev[s].e, !.r = ev[s].r]]
    /\ UNCHANGED <<y, build>>

\* A caller starts obj_func_likelihood(th) in evaluation s.
Call(s, th) ==
    /\ ev[s].pc \in {"idle", "done", "error"}
    /\ Len(ev[s].ran) < MaxCalls
    /\ ev' = [ev EXCEPT ![s] = Enter(ev[s], th)]
    /\ UNCHANGED <<y, build>>

\* One pass through the loop body.
Step(s) ==
    /\ ev[s].pc = "loop"
    /\ ev[s].t < N
    /\ ev' = [ev EXCEPT ![s] = Iterate(ev[s])]
    /\ UNCHANGED <<y, build>>

\* The loop is exhausted: compute and return the objective.
Finish(s) ==
    /\ ev[s].pc = "loop"
    /\ ev[s].t = N
    /\ ev' = [ev EXCEPT ![s] = Return(ev[s])]
    /\ UNCHANGED <<y, build>>

\* initialize_FGHQ called on its own with the coefficient sequences a, b.
Build ==
    /\ build.pc = "start"
    /\ build' = [build EXCEPT !.pc = "built",
                              !.m = initialize_FGHQ(build.a, build.b)]
    /\ UNCHANGED <<y, ev>>

-----------------------------------------------------------------------------
(* Input domains.                                                           *)

\* Coefficient values: -1/2, 0, 1/2
CoefVals == {Rat(-1, 2), RZero, Rat(1, 2)}

\* Observation values
YVals == {0, 1}

\* All 0-based sequences over S with a length in lo..hi
SeqsOf(S, lo, hi) == UNION {[0..(n - 1) -> S] : n \in lo..hi}

Thetas == SeqsOf(CoefVals, 0, MaxThetaLen)

Observations == SeqsOf(YVals, 1, MaxN)

NoBuild == [pc |-> "off", a |-> <<>>, b |-> <<>>, m |-> <<>>]

-----------------------------------------------------------------------------
(* Spec: one evaluation of obj_func_likelihood for every theta and y.       *)

Init ==
    /\ y \in Observations
    /\ ev = [s \in Evals |-> Idle]
    /\ build = NoBuild

Next ==
    \/ \E th \in Thetas : ev["A"].ran = <<>> /\ Call("A", th)
    \/ Step("A")
    \/ Finish("A")

Spec == Init /\ [][Next]_vars

\* The same evaluation, with the scheduling the code has: the loop is
\* synchronous numeric work that always proceeds to its next statement.
\* This is weak fairness of Step("A") \/ Finish("A"), with ENABLED written
\* out: one of the two can act exactly when the evaluation is in the loop.
InLoop == ev["A"].pc = "loop"

FairSpec ==
    Spec /\ ([]<>(~InLoop) \/ []<><<Step("A") \/ Finish("A")>>_vars)

-----------------------------------------------------------------------------
(* PairSpec: two callers evaluate concurrently, their steps interleaved,    *)
(* each running up to MaxCalls evaluations one after the other.             *)

\* theta of length 2 (too short: F @ x raises) and of length p + q, every
\* coefficient 1/2, and the zero vector of length p + q
PairThetas ==
    {th \in Thetas : /\ Len0(th) \in {2, p + q}
                     /\ \/ \A i \in DOMAIN th : th[i] = Rat(1, 2)
                        \/ Len0(th) = p + q /\ \A i \in DOMAIN th : th[i] = RZero}

PairNext ==
    \E s \in Evals :
        \/ \E th \in PairThetas : Call(s, th)
        \/ Step(s)
        \/ Finish(s)

PairSpec == Init /\ [][PairNext]_vars

-----------------------------------------------------------------------------
(* BuildSpec: initialize_FGHQ on every pair of coefficient sequences.       *)

BuildInit ==
    /\ y = Fun0(LAMBDA i : 0, 1)
    /\ ev = [s \in Evals |-> Idle]
    /\ build \in {[pc |-> "start", a |-> a, b |-> b, m |-> <<>>] :
                    a \in SeqsOf(CoefVals, 0, MaxP), b \in SeqsOf(CoefVals, 0, MaxQ)}

BuildNext == Build

BuildSpec == BuildInit /\ [][BuildNext]_vars

-----------------------------------------------------------------------------
(* Vocabulary of the properties.                                            *)

\* k of obj_func_likelihood
K3 == Max(p, q + 1)

Finished(c) == c.pc \in {"done", "error"}

\* The entry of row i, column j of A is zero
IsZero(v) == v[1] = 0

\* A has shape (n, m)
HasShape(A, n, m) ==
    /\ DOMAIN A = 0..(n - 1)
    /\ \A i \in 0..(n - 1) : DOMAIN A[i] = 0..(m - 1)

\* Sign of u - v for rationals u, v >= 0 given as n1/d1, n2/d2, by comparing
\* their continued fractions (no product of numerators is formed).
RECURSIVE CmpCF(_, _, _, _)
CmpCF(n1, d1, n2, d2) ==
    LET q1 == n1 \div d1
        q2 == n2 \div d2
        r1 == n1 % d1
        r2 == n2 % d2
    IN  IF q1 # q2 THEN (IF q1 > q2 THEN 1 ELSE -1)
        ELSE IF r1 = 0 /\ r2 = 0 THEN 0
        ELSE IF r1 = 0 THEN -1
        ELSE IF r2 = 0 THEN 1
        ELSE CmpCF(d2, r2, d1, r1)

RAbs(a) == <<Abs(a[1]), a[2]>>

\* Sign of the determinant a d - b c
SignDet2(a, b, c, d) ==
    LET sad == RSign(a) * RSign(d)
        sbc == RSign(b) * RSign(c)
        u == RDiv(RAbs(a), RAbs(b))
        v == RDiv(RAbs(c), RAbs(d))
    IN  IF sad # sbc THEN (IF sad > sbc THEN 1 ELSE -1)
        ELSE IF sad = 0 THEN 0
        ELSE sad * CmpCF(u[1], u[2], v[1], v[2])

\* Sign of the determinant of a 3 x 3 array, by elimination on column 0:
\* with pivot row i, det A = (-1)^i A[i][0] det S, S the 2 x 2 array
\* S[j][k] = A[j][k] - (A[j][0] / A[i][0]) A[i][k] over the other two rows.
SignDet3(A) ==
    LET piv == {i \in 0..2 : ~IsZero(A[i][0])}
    IN  IF piv = {} THEN 0
        ELSE
        LET i == CHOOSE i \in piv : \A l \in piv : i <= l
            j1 == CHOOSE j \in (0..2) \ {i} : \A l \in (0..2) \ {i} : j <= l
            j2 == CHOOSE j \in (0..2) \ {i} : \A l \in (0..2) \ {i} : j >= l
            S(j, k) == RSub(A[j][k], RMul(RDiv(A[j][0], A[i][0]), A[i][k]))
        IN  (IF i = 1 THEN -1 ELSE 1) * RSign(A[i][0])
              * SignDet2(S(j1, 1), S(j1, 2), S(j2, 1), S(j2, 2))

\* Every principal minor of the 3 x 3 array A is >= 0
PrincipalMinorsNonNegative(A) ==
    /\ \A i \in 0..2 : RSign(A[i][i]) >= 0
    /\ \A i, j \in 0..2 : i < j => SignDet2(A[i][i], A[i][j], A[j][i], A[j][j]) >= 0
    /\ SignDet3(A) >= 0

Symmetric(A) == \A i, j \in DOMAIN A : A[i][j] = A[j][i]

\* a[i] of the AR slice of theta, 0 beyond its end
ARCoef(th, i) == IF i < Min(p, Len0(th)) THEN th[i] ELSE RZero

\* Every root of z^3 - a0 z^2 - a1 z - a2 (the eigenvalues of the companion
\* matrix F) lies inside the unit circle: the Jury conditions of the cubic
\* z^3 + c2 z^2 + c1 z + c0 with c2 = -a0, c1 = -a1, c0 = -a2.
StableAR(th) ==
    LET c2 == RNeg(ARCoef(th, 0))
        c1 == RNeg(ARCoef(th, 1))
        c0 == RNeg(ARCoef(th, 2))
        at1 == RAdd(RAdd(ROne, c2), RAdd(c1, c0))
        atm1 == RAdd(RSub(ROne, c2), RSub(c1, c0))
        lhs == RSub(ROne, RMul(c0, c0))
        rhs == RAbs(RSub(RMul(c0, c2), c1))
    IN  /\ RSign(RSub(ROne, RAbs(c0))) > 0
        /\ RSign(at1) > 0
        /\ RSign(atm1) > 0
        /\ RSign(RSub(lhs, rhs)) > 0

-----------------------------------------------------------------------------
(* C1 *)

\* What one move of an evaluation from c to d may be.
C1_Move(c, d) ==
    /\ (c.pc # "loop" /\ d.pc = "loop") =>
          /\ d.t = 0
          /\ d.x = Zeros(K3, 1)
          /\ d.V = MatScale(Eye(K3), RInt(Diffuse))
          /\ d.e = Zeros(N, 1)
          /\ d.r = Zeros(N, 1)
    /\ (c.pc = "loop" /\ d.pc = "loop" /\ d # c) =>
          /\ c.t < N
          /\ d.t = c.t + 1
          /\ d.V_predict = Predict_V(c)
          /\ d.r[c.t][0] = d.V_predict[0][0]
          /\ d.e[c.t][0] = RSub(RInt(y[c.t]), Predict_x(c)[0][0])
          /\ d.x = MatAdd(Predict_x(c), MatScale(d.K, d.e[c.t][0]))
          /\ d.V = Update_V(d.K, c.H, d.V_predict)
          /\ \A i \in (0..(N - 1)) \ {c.t} : d.e[i] = c.e[i] /\ d.r[i] = c.r[i]
    /\ (c.pc = "loop" /\ d.pc = "done") => c.t = N /\ d.e = c.e /\ d.r = c.r
    /\ (c.pc # "loop" /\ Finished(d)) => d = c

C1_Shape(c) ==
    /\ c.pc = "loop" => c.t \in 0..N
    /\ c.pc = "done" => c.t = N /\ HasShape(c.e, N, 1) /\ HasShape(c.r, N, 1)

\* C1: an evaluation starts from x = 0, V = 100 I at t = 0; every change
\* while it is in the loop is the step of the current t, which predicts from
\* the x and V of the state before it (those the previous step left), writes
\* e[t] and r[t] and no other entry, and advances t by exactly one; it
\* returns only from t = N, with e and r of length N; and an evaluation whose
\* theta has at least p entries (so that F @ x is defined) does return.
C1_SequentialRecursion ==
    /\ [][\A s \in Evals : C1_Move(ev[s], ev'[s])]_vars
    /\ [](\A s \in Evals : C1_Shape(ev[s]))
    /\ \A s \in Evals :
          (ev[s].pc = "loop" /\ Len0(ev[s].theta) >= p) ~> (ev[s].pc = "done")

\* An evaluation of a theta of length p + q has returned after two steps.
C1_Witness ==
    /\ ev["A"].pc = "done"
    /\ ev["A"].t >= 2
    /\ Len0(ev["A"].theta) = p + q

-----------------------------------------------------------------------------
(* C3 *)

\* Every innovation of the evaluation c is exactly 0.
AllInnovationsZero(c) == \A i \in 0..(N - 1) : IsZero(c.e[i][0])

\* C3: an evaluation whose innovations are all exactly 0 (so that sigma_hat
\* is 0) ends in an error (the DomainError) and never returns a value.
C3_ZeroVarianceRaisesDomainError ==
    \A s \in Evals :
        (Finished(ev[s]) /\ Len0(ev[s].theta) = p + q /\ AllInnovationsZero(ev[s]))
            => ev[s].pc = "error" /\ ev[s].out.kind # "returned"

-----------------------------------------------------------------------------
(* C7 *)

\* C7: an evaluation called with a theta whose length is not p + q never
\* runs a step of the recursion and never returns a value: it can only end
\* in an error (the ConstructionError).
C7_WrongLengthRaisesConstructionError ==
    \A s \in Evals :
        (ev[s].pc # "idle" /\ Len0(ev[s].theta) # p + q)
            => /\ ev[s].t = 0
               /\ ev[s].pc # "done"
               /\ ev[s].out.kind # "returned"

-----------------------------------------------------------------------------
(* C8 *)

\* C8: in an evaluation of a theta of length p + q, every innovation
\* variance recorded so far is > 0.
C8_InnovationVariancePositive ==
    \A s \in Evals :
        (ev[s].pc \in {"loop", "done"} /\ Len0(ev[s].theta) = p + q)
            => \A i \in 0..(ev[s].t - 1) : RSign(ev[s].r[i][0]) > 0

\* Two steps have recorded their variances, for a theta with a nonzero AR
\* and a nonzero MA coefficient.
C8_Witness ==
    /\ ev["A"].pc = "done"
    /\ ev["A"].t >= 2
    /\ Len0(ev["A"].theta) = p + q
    /\ ~IsZero(ev["A"].theta[0])
    /\ ~IsZero(ev["A"].theta[p])

-----------------------------------------------------------------------------
(* C9 *)

\* C9: for a stable AR coefficient choice, the V_predict of every step made
\* so far is symmetric and has every principal minor >= 0.
C9_PredictedCovarianceValid ==
    \A s \in Evals :
        (ev[s].pc \in {"loop", "done"} /\ ev[s].t >= 1 /\ StableAR(ev[s].theta))
            => /\ HasShape(ev[s].V_predict, K3, K3)
               /\ Symmetric(ev[s].V_predict)
               /\ PrincipalMinorsNonNegative(ev[s].V_predict)

\* The second step of an evaluation with a stable, nonzero AR part has
\* computed its V_predict from the V the first update left.
C9_Witness ==
    /\ ev["A"].pc = "loop"
    /\ ev["A"].t = 2
    /\ Len0(ev["A"].theta) = p + q
    /\ StableAR(ev["A"].theta)
    /\ ~IsZero(ev["A"].theta[0])
    /\ ~IsZero(ev["A"].theta[1])
    /\ ~IsZero(ev["A"].theta[p])

-----------------------------------------------------------------------------
(* C10 *)

\* C10: after the update of every step, x[0] is the observation just
\* processed, K[0] is 1, and row 0 and column 0 of V are 0.
C10_FirstComponentPinned ==
    \A s \in Evals :
        (ev[s].pc \in {"loop", "done"} /\ ev[s].t >= 1)
            => /\ ~IsZero(ev[s].r[ev[s].t - 1][0])
               /\ ev[s].x[0][0] = RInt(y[ev[s].t - 1])
               /\ ev[s].K[0][0] = ROne
               /\ \A i \in 0..(K3 - 1) :
                     IsZero(ev[s].V[0][i]) /\ IsZero(ev[s].V[i][0])

\* The second update has run on a nonzero observation, with V not all zero.
C10_Witness ==
    /\ ev["A"].pc = "loop"
    /\ ev["A"].t = 2
    /\ y[1] # 0
    /\ ~IsZero(ev["A"].theta[0])
    /\ ~IsZero(ev["A"].V[1][1])

-----------------------------------------------------------------------------
(* C4 *)

\* The result of a finished evaluation: how it ended, e, r and what it
\* returned or raised.
Result(c) == [pc |-> c.pc, e |-> c.e, r |-> c.r, out |-> c.out]

\* C4: any two finished evaluations of the same theta have the same result,
\* whatever ran before them in their caller and however their steps were
\* interleaved with the other caller's; and no step changes y (hence N).
C4_EvaluationsIndependent ==
    /\ [](\A s1, s2 \in Evals :
            (Finished(ev[s1]) /\ Finished(ev[s2]) /\ ev[s1].theta = ev[s2].theta)
                => Result(ev[s1]) = Result(ev[s2]))
    /\ [][y' = y]_vars

\* Caller A has returned from its second evaluation, of a nonzero theta of
\* length p + q after a theta that made F @ x raise; caller B has returned
\* from its first evaluation, of the same theta; y has two observations.
C4_Witness ==
    /\ N = 2
    /\ ev["A"].pc = "done" /\ ev["B"].pc = "done"
    /\ ev["A"].theta = ev["B"].theta
    /\ ~IsZero(ev["A"].theta[0])
    /\ Len(ev["A"].ran) = 2 /\ Len(ev["B"].ran) = 1
    /\ Len0(ev["A"].ran[1]) < p

-----------------------------------------------------------------------------
(* C5 *)

\* C5: F is k x k, G is k x 1 and H is 1 x k for the same k = max(p, q+1),
\* and k >= 1.
C5_DimensionsAgree ==
    build.pc = "built" =>
        LET k == Max(Len0(build.a), Len0(build.b) + 1)
        IN  /\ k >= 1
            /\ HasShape(build.m.F, k, k)
            /\ HasShape(build.m.G, k, 1)
            /\ HasShape(build.m.H, 1, k)

\* initialize_FGHQ has returned for p = q = 0.
C5_Witness ==
    /\ build.pc = "built"
    /\ Len0(build.a) = 0
    /\ Len0(build.b) = 0
    /\ HasShape(build.m.F, 1, 1)

-----------------------------------------------------------------------------
(* C6 *)

====
